---- MODULE Spec2Model ----
(***************************************************************************)
(* The token-metered tool invocation pipeline of the Wolfram Knowledge     *)
(* Engine MCP server: the two tool handlers registered in                  *)
(* WolframKnowledgeEngineMCP.init (getQuickAnswer, getDetailedAnalysis),   *)
(* the WolframApiClient they call, the operational cache (CACHE_KV) and    *)
(* the token ledger (TOKEN_DB) they share.                                 *)
(*                                                                         *)
(* A handler is an async function: every await is a suspension point, so   *)
(* each action below is the code that runs between two awaits.             *)
(*                                                                         *)
(* Text is modelled as a sequence of tokens (strings): a token is either a *)
(* literal taken from the code, or a piece of an upstream response body.   *)
(* Queries, units, cache keys and user ids are strings, concatenated with  *)
(* \o exactly as the template literals of the code concatenate them.       *)
(* An absent optional value is the falsy value of its type ("" or 0),      *)
(* which is all the code ever tests (!userId, units || "", maxchars || ""). *)
(***************************************************************************)
EXTENDS Integers, Sequences, FiniteSets, TLC

(***************************************************************************)
(* Bounds of the model.                                                    *)
(***************************************************************************)
\* invocations started in one behaviour
MaxStarts == 3
\* initial balance of the user who holds tokens
MaxBalance == 4
\* attempts the ledger makes inside one consumeTokensWithRetry call
MaxAttempts == 2

(***************************************************************************)
(* Program constants.                                                      *)
(***************************************************************************)
QUICK_COST == 2
DETAILED_COST == 4
QUICK_MAX_LENGTH == 5000
DETAILED_DEFAULT_MAX_LENGTH == 6800
CACHE_TTL_SECONDS == 900

QUICK == "getQuickAnswer"
DETAILED == "getDetailedAnalysis"
Tools == {QUICK, DETAILED}
SERVER_NAME == "knowledge-engine"
PLACEHOLDER == "[REDACTED]"
CACHED_MARKER == "[Cached Result]\n\n"

TOOL_COST(tool) == IF tool = QUICK THEN QUICK_COST ELSE DETAILED_COST

(***************************************************************************)
(* Inputs.                                                                 *)
(***************************************************************************)
Users == {"u1", "u2"}
\* this.props?.userId: a user, or absent
UserIds == Users \cup {""}
Queries == {"LA to NY"}
\* units: "metric" | "imperial" | undefined
UnitsArgs == {"", "metric"}
\* maxchars: a number in [1000, 10000] | undefined
MaxcharsArgs == {0, 1000}

\* tokens of an upstream body
HtmlTokens == {"<b>", "</b>"}
ControlTokens == {"\f"}
WhitespaceTokens == {" ", "\n"}
PIITokens == {"4532-1111-2222-3333", "ABA300000"}

\* response bodies of the external service on a 2xx status
Bodies ==
    { <<"2,789 km">>,
      <<" ", "<b>", "card", " ", " ", "4532-1111-2222-3333", "\f", "</b>", "\n">>,
      <<" ">> }
\* response bodies of the external service on a 501 status
ErrorBodies == { <<>>, <<"Did you mean LA?">> }
\* HTTP statuses the external service answers with; 0 stands for a fetch
\* that rejects (network failure)
Statuses == {200, 400, 403, 500, 501}

(***************************************************************************)
(* Text helpers.                                                           *)
(***************************************************************************)
RECURSIVE Rep(_, _)
\* the string s, n times
Rep(s, n) ==
    IF n = 0 THEN ""
    ELSE IF n % 2 = 1 THEN s \o Rep(s, n - 1)
         ELSE LET half == Rep(s, n \div 2) IN half \o half

RECURSIVE TextLen(_)
TextLen(t) == IF t = <<>> THEN 0 ELSE Len(Head(t)) + TextLen(Tail(t))

RECURSIVE Filter(_, _)
\* the tokens of t that are not in drop
Filter(t, drop) ==
    IF t = <<>> THEN <<>>
    ELSE IF Head(t) \in drop THEN Filter(Tail(t), drop)
         ELSE <<Head(t)>> \o Filter(Tail(t), drop)

RECURSIVE TrimStart(_)
TrimStart(t) ==
    IF t = <<>> THEN <<>>
    ELSE IF Head(t) \in WhitespaceTokens \cup ControlTokens THEN TrimStart(Tail(t))
         ELSE t

RECURSIVE TrimEnd(_)
TrimEnd(t) ==
    IF t = <<>> THEN <<>>
    ELSE IF t[Len(t)] \in WhitespaceTokens \cup ControlTokens
         THEN TrimEnd(SubSeq(t, 1, Len(t) - 1))
         ELSE t

\* String.prototype.trim
Trim(t) == TrimEnd(TrimStart(t))

(***************************************************************************)
(* Output sanitizer and redactor (package pilpat-mcp-security).            *)
(***************************************************************************)
RECURSIVE CollapseWhitespace(_)
\* every run of whitespace becomes one space
CollapseWhitespace(t) ==
    IF t = <<>> THEN <<>>
    ELSE IF Head(t) \in WhitespaceTokens
         THEN <<" ">> \o CollapseWhitespace(TrimStart(Tail(t)))
         ELSE <<Head(t)>> \o CollapseWhitespace(Tail(t))

RECURSIVE Truncate(_, _)
\* the longest prefix of whole tokens that fits in maxLength characters
Truncate(t, maxLength) ==
    IF t = <<>> \/ Len(Head(t)) > maxLength THEN <<>>
    ELSE <<Head(t)>> \o Truncate(Tail(t), maxLength - Len(Head(t)))

\* sanitizeOutput(text, {removeHtml, removeControlChars, normalizeWhitespace, maxLength})
sanitizeOutput(text, maxLength) ==
    Truncate(Trim(CollapseWhitespace(Filter(Filter(text, HtmlTokens), ControlTokens))),
             maxLength)

RECURSIVE Redact(_)
Redact(t) ==
    IF t = <<>> THEN <<>>
    ELSE <<IF Head(t) \in PIITokens THEN PLACEHOLDER ELSE Head(t)>> \o Redact(Tail(t))

\* redactPII(text, {..., placeholder: '[REDACTED]'})
redactPII(text) ==
    [redacted |-> Redact(text),
     detectedPII |-> {text[n] : n \in {m \in 1..Len(text) : text[m] \in PIITokens}}]

(***************************************************************************)
(* WolframApiClient.                                                       *)
(***************************************************************************)
\* what fetch() settles with: a rejection, or a response
FetchOutcomes ==
    { [rejects |-> TRUE, status |-> 0, body |-> <<>>] }
    \cup { [rejects |-> FALSE, status |-> 200, body |-> b] : b \in Bodies }
    \cup { [rejects |-> FALSE, status |-> 501, body |-> b] : b \in ErrorBodies }
    \cup { [rejects |-> FALSE, status |-> st, body |-> <<>>] : st \in Statuses \ {200, 501} }

\* response.ok
Ok(status) == status >= 200 /\ status <= 299

StatusText(status) ==
    CASE status = 400 -> "Bad Request"
      [] status = 403 -> "Forbidden"
      [] status = 500 -> "Internal Server Error"
      [] status = 501 -> "Not Implemented"
      [] OTHER -> "OK"

\* a call that returns value v / a call that throws new Error(message)
Return(v) == [threw |-> FALSE, value |-> v]
Throw(message) == [threw |-> TRUE, value |-> message]

\* the Error thrown inside the try block of either client method, for a
\* response that is not 2xx; withBody is TRUE for getDetailedAnalysis
\* faulty variant: one message for every status
StatusError_Generic(f, withBody) == <<"WolframAlpha API error">>
StatusError(f, withBody) ==
    CASE f.status = 501 ->
           IF withBody
           THEN <<"WolframAlpha could not interpret the query. ">>
                \o (IF f.body # <<>> THEN <<"Suggestions: ">> \o f.body
                    ELSE <<"Please rephrase.">>)
           ELSE <<"WolframAlpha could not interpret the query. Please rephrase or check spelling.">>
      [] f.status = 400 -> <<"Invalid query format. Please check your input.">>
      [] f.status = 403 -> <<"Invalid WolframAlpha AppID. Please check configuration.">>
      [] OTHER -> <<"WolframAlpha API error: " \o ToString(f.status) \o " " \o StatusText(f.status)>>

\* WolframApiClient.getQuickAnswer, given what its one fetch settles with
\* faulty variant: a failed request is swallowed and an empty answer returned
getQuickAnswer_Swallow(f) ==
    IF f.rejects \/ ~Ok(f.status) THEN Return(<<>>) ELSE Return(Trim(f.body))
getQuickAnswer(f) ==
    IF f.rejects THEN Throw(<<"Failed to get quick answer: ", "fetch failed">>)
    ELSE IF ~Ok(f.status)
         THEN Throw(<<"Failed to get quick answer: ">> \o StatusError(f, FALSE))
         ELSE Return(Trim(f.body))

\* WolframApiClient.getDetailedAnalysis, given what its one fetch settles with
getDetailedAnalysis(f) ==
    IF f.rejects THEN Throw(<<"Failed to get detailed analysis: ", "fetch failed">>)
    ELSE IF ~Ok(f.status)
         THEN Throw(<<"Failed to get detailed analysis: ">> \o StatusError(f, TRUE))
         ELSE Return(Trim(f.body))

\* WolframApiClient.getCacheKey
\* faulty variant: the tool name is left out of the key
getCacheKey_NoTool(toolName, query) == "wolfram:" \o query
getCacheKey(toolName, query) == "wolfram:" \o toolName \o ":" \o query

\* the second argument of getCacheKey in each handler:
\* query + (units || "") and query + (maxchars || "")
QuickKeyArg(query, units) == query \o units
DetailedKeyArg(query, maxchars) ==
    query \o (IF maxchars # 0 THEN ToString(maxchars) ELSE "")

(***************************************************************************)
(* State.                                                                  *)
(***************************************************************************)
\* handlers that can be in flight at the same time
Slots == {1, 2}

VARIABLES
    cache,      \* CACHE_KV: the unexpired entries, cache key -> stored text
    balance,    \* TOKEN_DB: user -> token balance
    actions,    \* TOKEN_DB: the action records the ledger has committed
    inv,        \* slot -> the handler invocation running in it
    nextId,     \* number of action ids crypto.randomUUID() has handed out
    started     \* number of invocations started

vars == <<cache, balance, actions, inv, nextId, started>>

\* string | null, as checkCache returns it
Null == [isNull |-> TRUE, value |-> <<>>]
Some(v) == [isNull |-> FALSE, value |-> v]
\* JavaScript truthiness of a string | null
Truthy(x) == ~x.isNull /\ x.value # <<>>

NoBalanceCheck == [sufficient |-> FALSE, currentBalance |-> 0, userDeleted |-> FALSE]
NoResponse == [isError |-> FALSE, text |-> <<>>]
NoFetch == [rejects |-> FALSE, status |-> 0, body |-> <<>>]

\* a slot no handler has run in
Idle ==
    [pc |-> "idle", tool |-> QUICK, query |-> "", units |-> "", maxchars |-> 0,
     userId |-> "", actionId |-> 0, cacheKey |-> "",
     balanceCheck |-> NoBalanceCheck, result |-> <<>>, finalResult |-> <<>>,
     attempts |-> 0, response |-> NoResponse,
     \* history of the invocation, read by the properties only
     log |-> <<>>,              \* the steps taken, in order
     thrown |-> <<>>,           \* message of the exception the catch block got
     kvEntry |-> Null,          \* the store's entry for cacheKey at the cache read
     readFailed |-> FALSE,      \* the cache read rejected
     fetched |-> NoFetch,       \* what the fetch settled with
     balanceCalls |-> <<>>,     \* arguments of each checkBalance call
     failure |-> "",            \* the call that threw: a collaborator's failure
     consumeCalls |-> <<>>,     \* arguments of each consumeTokensWithRetry call
     attemptIds |-> <<>>,       \* action id of each attempt at the consume operation
     applied |-> 0,             \* attempts whose transaction was applied
     balanceAfterFirst |-> 0,   \* the user's balance after the first of them
     puts |-> <<>>,             \* <<key, value>> of each cache write that succeeded
     ttls |-> <<>>,             \* expirationTtl of each cacheKV.put call issued
     charged |-> 0]             \* tokens the ledger deducted for this invocation

(***************************************************************************)
(* Token ledger (tokenConsumption.ts, tokenUtils.ts).                      *)
(***************************************************************************)
\* checkBalance(db, userId, cost)
checkBalance(userId, cost) ==
    [sufficient |-> balance[userId] >= cost, currentBalance |-> balance[userId],
     userDeleted |-> FALSE]

\* checkBalance for an account that was deleted with tokens left on it
checkBalanceDeleted(userId, cost) ==
    [checkBalance(userId, cost) EXCEPT !.userDeleted = TRUE]

\* formatInsufficientTokensError(toolName, currentBalance, cost)
formatInsufficientTokensError(toolName, currentBalance, cost) ==
    <<"Insufficient tokens for ", toolName, ": balance ", ToString(currentBalance),
      ", required ", ToString(cost)>>

\* the action record of one consume call
ActionRecord(userId, cost, toolName, input, output, success, actionId) ==
    [actionId |-> actionId, userId |-> userId, cost |-> cost,
     serverName |-> SERVER_NAME, toolName |-> toolName, input |-> input,
     output |-> output, success |-> success]

Recorded(acts, actionId) == \E r \in acts : r.actionId = actionId

\* One application of the ledger's consume operation, a transaction: it
\* deducts the cost and records the action, unless the action id is recorded.
\* faulty variant: the cost is deducted again for a recorded action id
ConsumeBalance_NotIdempotent(bal, acts, a) == [bal EXCEPT ![a.userId] = @ - a.cost]
ConsumeBalance(bal, acts, a) ==
    IF Recorded(acts, a.actionId) THEN bal
    ELSE [bal EXCEPT ![a.userId] = @ - a.cost]
ConsumeActions(acts, a) ==
    IF Recorded(acts, a.actionId) THEN acts ELSE acts \cup {a}

(***************************************************************************)
(* Operational cache.                                                      *)
(***************************************************************************)
\* cacheKV.get(key), when the read succeeds
KVGet(key) == IF key \in DOMAIN cache THEN Some(cache[key]) ELSE Null

\* WolframApiClient.checkCache; readFails: cacheKV.get rejects
\* faulty variant: the cached value is never returned
checkCache_AlwaysMiss(cacheKey, readFails) == Null
checkCache(cacheKey, readFails) ==
    IF readFails THEN Null
    ELSE IF Truthy(KVGet(cacheKey)) THEN KVGet(cacheKey) ELSE Null

\* checkCache's try/catch: a rejected read is logged, never raised to the handler
\* faulty variant: the rejection of cacheKV.get reaches the handler
checkCacheRaises_Propagates(readFails) == readFails
checkCacheRaises(readFails) == FALSE

\* storeCache's try/catch: a rejected write is logged, never raised to the handler
\* faulty variant: the rejection of cacheKV.put reaches the handler
storeCacheRaises_Propagates(writeFails) == writeFails
storeCacheRaises(writeFails) == FALSE

\* the options storeCache passes to cacheKV.put
\* faulty variant: no expiration is asked for
PutOptions_NoTtl == [expirationTtl |-> 0]
PutOptions == [expirationTtl |-> CACHE_TTL_SECONDS]

\* WolframApiClient.storeCache: the cache after it; writeFails: cacheKV.put rejects
\* faulty variant: the text is put under another key than the one given
storeCache_OtherKey(cacheKey, result, writeFails) ==
    IF writeFails THEN cache
    ELSE [k \in DOMAIN cache \cup {cacheKey \o "?"} |->
            IF k = cacheKey \o "?" THEN result ELSE cache[k]]
\* faulty variant: an existing entry is not overwritten
storeCache_KeepFirst(cacheKey, result, writeFails) ==
    IF writeFails \/ cacheKey \in DOMAIN cache THEN cache
    ELSE [k \in DOMAIN cache \cup {cacheKey} |->
            IF k = cacheKey THEN result ELSE cache[k]]
storeCache(cacheKey, result, writeFails) ==
    IF writeFails THEN cache
    ELSE [k \in DOMAIN cache \cup {cacheKey} |->
            IF k = cacheKey THEN result ELSE cache[k]]

(***************************************************************************)
(* Tool handlers: the code between two awaits.  Both handlers have the     *)
(* same shape; r is the invocation, r.tool tells them apart.               *)
(***************************************************************************)
\* the catch block of a handler: an error result carrying the message
\* faulty variant: the error result is not flagged isError
Caught_NoFlag(message) == [isError |-> FALSE, text |-> <<"Error: ">> \o message]
Caught(message) == [isError |-> TRUE, text |-> <<"Error: ">> \o message]

\* the handler leaves through its catch block
ThrowIn(r, step, message) ==
    [r EXCEPT !.pc = "done", !.thrown = message, !.response = Caught(message),
              !.log = @ \o <<"throw:" \o step, "respond">>]

\* the result returned on a cache hit
\* faulty variants: the cached text without the marker; the marker alone,
\* without the cached text
HitResponse_NoMarker(cachedResult) == [isError |-> FALSE, text |-> cachedResult]
HitResponse_MarkerOnly(cachedResult) == [isError |-> FALSE, text |-> <<CACHED_MARKER>>]
HitResponse(cachedResult) ==
    [isError |-> FALSE, text |-> <<CACHED_MARKER>> \o cachedResult]

\* the result returned on insufficient balance
InsufficientResponse(tool, balanceCheck) ==
    [isError |-> TRUE,
     text |-> formatInsufficientTokensError(tool, balanceCheck.currentBalance,
                                            TOOL_COST(tool))]

\* the result returned by Step 7
SuccessResponse(finalResult) == [isError |-> FALSE, text |-> finalResult]

CacheKeyOf(tool, query, units, maxchars) ==
    IF tool = QUICK THEN getCacheKey(QUICK, QuickKeyArg(query, units))
    ELSE getCacheKey(DETAILED, DetailedKeyArg(query, maxchars))

\* maxLength option of sanitizeOutput in each handler
MaxLengthOf(tool, maxchars) ==
    IF tool = QUICK THEN QUICK_MAX_LENGTH
    ELSE IF maxchars # 0 THEN maxchars ELSE DETAILED_DEFAULT_MAX_LENGTH

\* apiClient.getQuickAnswer(query, units) / apiClient.getDetailedAnalysis(query, maxchars)
CallClient(tool, f) == IF tool = QUICK THEN getQuickAnswer(f) ELSE getDetailedAnalysis(f)

\* the arguments of the handler's consumeTokensWithRetry call (Step 5)
\* faulty variants: a cost other than TOOL_COST, the unsanitized result as
\* output, an action id other than the invocation's, one action id for all
\* invocations
ConsumeArgs_WrongCost(r) ==
    ActionRecord(r.userId, TOOL_COST(r.tool) + 1, r.tool,
                 [query |-> r.query, units |-> r.units, maxchars |-> r.maxchars],
                 r.finalResult, TRUE, r.actionId)
ConsumeArgs_RawOutput(r) ==
    ActionRecord(r.userId, TOOL_COST(r.tool), r.tool,
                 [query |-> r.query, units |-> r.units, maxchars |-> r.maxchars],
                 r.result, TRUE, r.actionId)
ConsumeArgs_FreshId(r) ==
    ActionRecord(r.userId, TOOL_COST(r.tool), r.tool,
                 [query |-> r.query, units |-> r.units, maxchars |-> r.maxchars],
                 r.finalResult, TRUE, r.actionId + MaxStarts + 1)
ConsumeArgs_SharedId(r) ==
    ActionRecord(r.userId, TOOL_COST(r.tool), r.tool,
                 [query |-> r.query, units |-> r.units, maxchars |-> r.maxchars],
                 r.finalResult, TRUE, 1)
ConsumeArgs(r) ==
    ActionRecord(r.userId, TOOL_COST(r.tool), r.tool,
                 [query |-> r.query, units |-> r.units, maxchars |-> r.maxchars],
                 r.finalResult, TRUE, r.actionId)

\* the arguments of the handler's checkBalance call (Step 3)
\* faulty variant: the balance is checked against the other tool's cost
BalanceArgs_OtherCost(r) ==
    [userId |-> r.userId, cost |-> QUICK_COST + DETAILED_COST - TOOL_COST(r.tool)]
BalanceArgs(r) == [userId |-> r.userId, cost |-> TOOL_COST(r.tool)]

\* Step 1, and Step 2 up to the cache read; r0 holds the arguments, the
\* user id of the request context and the action id
\* faulty variant: the user id is not tested
Begin_NoUserCheck(r0) ==
    [r0 EXCEPT !.pc = "checkCache",
               !.cacheKey = CacheKeyOf(r0.tool, r0.query, r0.units, r0.maxchars),
               !.log = @ \o <<"userId", "checkCache">>]
Begin(r0) ==
    IF r0.userId = ""
    THEN ThrowIn([r0 EXCEPT !.log = @ \o <<"userId">>], "userId",
                 <<"User ID not found in authentication context">>)
    ELSE [r0 EXCEPT !.pc = "checkCache",
                    !.cacheKey = CacheKeyOf(r0.tool, r0.query, r0.units, r0.maxchars),
                    !.log = @ \o <<"userId", "checkCache">>]

\* Step 2 after the cache read, and Step 3 up to the balance check
AfterCheckCache(r, cachedResult) ==
    IF Truthy(cachedResult)
    THEN [r EXCEPT !.pc = "done", !.response = HitResponse(cachedResult.value),
                   !.log = @ \o <<"cacheHit", "respond">>]
    ELSE [r EXCEPT !.pc = "checkBalance", !.log = @ \o <<"cacheMiss", "checkBalance">>]

\* Step 3 after the balance check, and Step 4 up to the fetch;
\* call: what checkBalance returned or threw
\* faulty variant: the sufficient flag is not tested
AfterCheckBalance_NoGate(r, call) ==
    IF call.threw THEN ThrowIn(r, "checkBalance", call.value)
    ELSE [r EXCEPT !.pc = "execute", !.balanceCheck = call.value,
                   !.log = @ \o <<"balanceChecked", "fetch">>]
\* faulty variant: an invocation is refused while another invocation of the
\* same user is between its balance check and its charge
AfterCheckBalance_Locked(r, call) ==
    IF call.threw THEN ThrowIn(r, "checkBalance", call.value)
    ELSE IF \/ ~call.value.sufficient
            \/ \E j \in Slots : /\ inv[j].actionId # r.actionId
                                 /\ inv[j].userId = r.userId
                                 /\ inv[j].pc \in {"execute", "consume"}
    THEN [r EXCEPT !.pc = "done", !.balanceCheck = call.value,
                   !.response = InsufficientResponse(r.tool, call.value),
                   !.log = @ \o <<"balanceChecked", "insufficient", "respond">>]
    ELSE [r EXCEPT !.pc = "execute", !.balanceCheck = call.value,
                   !.log = @ \o <<"balanceChecked", "fetch">>]
AfterCheckBalance(r, call) ==
    IF call.threw THEN ThrowIn(r, "checkBalance", call.value)
    ELSE IF ~call.value.sufficient
    THEN [r EXCEPT !.pc = "done", !.balanceCheck = call.value,
                   !.response = InsufficientResponse(r.tool, call.value),
                   !.log = @ \o <<"balanceChecked", "insufficient", "respond">>]
    ELSE [r EXCEPT !.pc = "execute", !.balanceCheck = call.value,
                   !.log = @ \o <<"balanceChecked", "fetch">>]

\* Step 4 after the client call, Step 4.5, and Step 5 up to the consume call;
\* call: what the client returned or threw; securityFails: "sanitize" or
\* "redact" when that call throws
\* faulty variant: a failed client call is issued again
AfterClient_RetryOnFailure(r, call, securityFails) ==
    LET result == call.value
        finalResult ==
            redactPII(sanitizeOutput(result, MaxLengthOf(r.tool, r.maxchars))).redacted
        r5 == [r EXCEPT !.pc = "consume", !.result = result,
                        !.finalResult = finalResult,
                        !.log = @ \o <<"sanitized", "redacted", "consume">>]
    IN IF call.threw /\ Cardinality({n \in 1..Len(r.log) : r.log[n] = "fetch"}) < 2
       THEN [r EXCEPT !.pc = "execute", !.log = @ \o <<"fetch">>]
       ELSE IF call.threw THEN ThrowIn(r, "client", call.value)
       ELSE [r5 EXCEPT !.consumeCalls = @ \o <<ConsumeArgs(r5)>>]
AfterClient(r, call, securityFails) ==
    LET result == call.value
        sanitized == sanitizeOutput(result, MaxLengthOf(r.tool, r.maxchars))
        finalResult == redactPII(sanitized).redacted
        r5 == [r EXCEPT !.pc = "consume", !.result = result,
                        !.finalResult = finalResult,
                        !.log = @ \o <<"sanitized", "redacted", "consume">>]
    IN IF call.threw THEN ThrowIn(r, "client", call.value)
       ELSE IF securityFails = "sanitize"
       THEN ThrowIn([r EXCEPT !.result = result], "sanitize",
                    <<"sanitizeOutput failed">>)
       ELSE IF securityFails = "redact"
       THEN ThrowIn([r EXCEPT !.result = result, !.log = @ \o <<"sanitized">>],
                    "redact", <<"redactPII failed">>)
       ELSE [r5 EXCEPT !.consumeCalls = @ \o <<ConsumeArgs(r5)>>]

\* Step 5 after the consume call, and Step 6 up to the cache write;
\* threw: consumeTokensWithRetry threw
\* faulty variant: a failed consume call is ignored
AfterConsume_IgnoreFailure(r, threw) ==
    [r EXCEPT !.pc = "storeCache", !.log = @ \o <<"storeCache">>]
AfterConsume(r, threw) ==
    IF threw THEN ThrowIn(r, "consume", <<"Failed to consume tokens">>)
    ELSE [r EXCEPT !.pc = "storeCache", !.log = @ \o <<"storeCache">>]

\* Step 6 after the cache write, and Step 7
\* faulty variant: the handler never returns after the cache write
AfterStoreCache_Hangs(r) == [r EXCEPT !.pc = "hung"]
AfterStoreCache(r) ==
    [r EXCEPT !.pc = "done", !.response = SuccessResponse(r.finalResult),
              !.log = @ \o <<"respond">>]

(***************************************************************************)
(* Actions.                                                                *)
(***************************************************************************)
\* An empty cache and ledger log; one user holds tokens, the other none.
Init ==
    /\ cache = [k \in {} |-> <<>>]
    /\ balance = [u \in Users |-> IF u = "u1" THEN MaxBalance ELSE 0]
    /\ actions = {}
    /\ inv = [i \in Slots |-> Idle]
    /\ nextId = 0
    /\ started = 0

\* A tool is invoked in slot i: the handler runs up to its cache read.
Start(i, tool, query, units, maxchars, userId) ==
    /\ inv[i].pc \in {"idle", "done"}
    /\ started < MaxStarts
    /\ started' = started + 1
    /\ nextId' = nextId + 1
    /\ inv' = [inv EXCEPT ![i] =
          Begin([Idle EXCEPT !.tool = tool, !.query = query, !.units = units,
                             !.maxchars = maxchars, !.userId = userId,
                             !.actionId = nextId + 1, !.log = <<"actionId">>])]
    /\ UNCHANGED <<cache, balance, actions>>

\* The cache read settles.
CacheChecked(i, readFails) ==
    /\ inv[i].pc = "checkCache"
    /\ LET r == [inv[i] EXCEPT !.kvEntry = KVGet(inv[i].cacheKey),
                                !.readFailed = readFails]
       IN inv' = [inv EXCEPT ![i] =
             IF checkCacheRaises(readFails)
             THEN ThrowIn(r, "checkCache", <<"KV_ERROR">>)
             ELSE AfterCheckCache(r, checkCache(r.cacheKey, readFails))]
    /\ UNCHANGED <<cache, balance, actions, nextId, started>>

\* The balance check settles; dbFails: checkBalance throws.
BalanceChecked(i, dbFails) ==
    /\ inv[i].pc = "checkBalance"
    /\ inv' = [inv EXCEPT ![i] =
          AfterCheckBalance([inv[i] EXCEPT !.failure = IF dbFails THEN "checkBalance" ELSE @,
                                           !.balanceCalls = @ \o <<BalanceArgs(inv[i])>>],
              IF dbFails THEN Throw(<<"D1_ERROR">>)
              ELSE Return(checkBalance(BalanceArgs(inv[i]).userId,
                                       BalanceArgs(inv[i]).cost)))]
    /\ UNCHANGED <<cache, balance, actions, nextId, started>>

\* The balance check settles for a deleted account.
BalanceCheckedDeleted(i) ==
    /\ inv[i].pc = "checkBalance"
    /\ inv' = [inv EXCEPT ![i] =
          AfterCheckBalance([inv[i] EXCEPT !.balanceCalls = @ \o <<BalanceArgs(inv[i])>>],
              Return(checkBalanceDeleted(BalanceArgs(inv[i]).userId,
                                         BalanceArgs(inv[i]).cost)))]
    /\ UNCHANGED <<cache, balance, actions, nextId, started>>

\* The fetch of the client settles with f.
Executed(i, f, securityFails) ==
    /\ inv[i].pc = "execute"
    /\ inv' = [inv EXCEPT ![i] =
          AfterClient([inv[i] EXCEPT !.fetched = f, !.log = @ \o <<"fetched">>,
                                     !.failure = IF f.rejects \/ ~Ok(f.status) THEN "client"
                                                 ELSE IF securityFails # "none"
                                                 THEN securityFails ELSE @],
                      CallClient(inv[i].tool, f), securityFails)]
    /\ UNCHANGED <<cache, balance, actions, nextId, started>>

\* One attempt of consumeTokensWithRetry at the ledger's consume operation.
\* outcome "ok": the transaction commits and the call returns; "lostAck": the
\* transaction commits but the attempt reports a failure; "fail": the
\* transaction does not commit.  After MaxAttempts failed attempts
\* consumeTokensWithRetry throws.
ConsumeAttempt(i, outcome) ==
    /\ inv[i].pc = "consume"
    /\ inv[i].attempts < MaxAttempts
    /\ LET r == inv[i]
           a == r.consumeCalls[Len(r.consumeCalls)]
           commits == outcome \in {"ok", "lostAck"}
           bal == IF commits THEN ConsumeBalance(balance, actions, a) ELSE balance
           r1 == [r EXCEPT !.attempts = @ + 1,
                           !.attemptIds = @ \o <<a.actionId>>,
                           !.applied = IF commits THEN @ + 1 ELSE @,
                           !.balanceAfterFirst =
                               IF commits /\ r.applied = 0 THEN bal[a.userId] ELSE @,
                           !.charged = @ + (balance[a.userId] - bal[a.userId]),
                           !.log = @ \o <<"attempt">>]
       IN /\ balance' = bal
          /\ actions' = IF commits THEN ConsumeActions(actions, a) ELSE actions
          /\ inv' = [inv EXCEPT ![i] =
                IF outcome = "ok"
                THEN AfterConsume([r1 EXCEPT !.log = @ \o <<"consumed">>], FALSE)
                ELSE IF r1.attempts = MaxAttempts
                THEN AfterConsume([r1 EXCEPT !.failure = "consume"], TRUE)
                ELSE r1]
    /\ UNCHANGED <<cache, nextId, started>>

\* The cache write settles; writeFails: cacheKV.put rejects.
\* faulty variant: a rejected write gives the tokens back
CacheStored_Refund(i, writeFails) ==
    /\ inv[i].pc = "storeCache"
    /\ cache' = storeCache(inv[i].cacheKey, inv[i].finalResult, writeFails)
    /\ balance' = IF writeFails
                  THEN [balance EXCEPT ![inv[i].userId] = @ + TOOL_COST(inv[i].tool)]
                  ELSE balance
    /\ inv' = [inv EXCEPT ![i] =
          AfterStoreCache([inv[i] EXCEPT
              !.log = @ \o <<IF writeFails THEN "putFailed" ELSE "put">>])]
    /\ UNCHANGED <<actions, nextId, started>>
CacheStored(i, writeFails) ==
    /\ inv[i].pc = "storeCache"
    /\ LET r == [inv[i] EXCEPT
                    !.puts = IF writeFails THEN @
                             ELSE @ \o <<<<inv[i].cacheKey, inv[i].finalResult>>>>,
                    !.ttls = @ \o <<PutOptions.expirationTtl>>,
                    !.log = @ \o <<IF writeFails THEN "putFailed" ELSE "put">>]
       IN /\ cache' = storeCache(r.cacheKey, r.finalResult, writeFails)
          /\ inv' = [inv EXCEPT ![i] =
                IF storeCacheRaises(writeFails)
                THEN ThrowIn(r, "storeCache", <<"KV_ERROR">>)
                ELSE AfterStoreCache(r)]
    /\ UNCHANGED <<balance, actions, nextId, started>>

\* The store drops an entry whose TTL (expirationTtl: 900) has run out.
Expire(key) ==
    /\ key \in DOMAIN cache
    /\ cache' = [k \in DOMAIN cache \ {key} |-> cache[k]]
    /\ UNCHANGED <<balance, actions, inv, nextId, started>>

\* One handler at a time: tool calls arrive one after the other.
Next ==
    \/ \E query \in Queries, units \in UnitsArgs, userId \in UserIds :
          Start(1, QUICK, query, units, 0, userId)
    \/ \E query \in Queries, maxchars \in MaxcharsArgs, userId \in UserIds :
          Start(1, DETAILED, query, "", maxchars, userId)
    \/ \E readFails \in BOOLEAN : CacheChecked(1, readFails)
    \/ \E dbFails \in BOOLEAN : BalanceChecked(1, dbFails)
    \/ \E f \in FetchOutcomes, securityFails \in {"none", "sanitize", "redact"} :
          Executed(1, f, securityFails)
    \/ \E outcome \in {"ok", "lostAck", "fail"} : ConsumeAttempt(1, outcome)
    \/ \E writeFails \in BOOLEAN : CacheStored(1, writeFails)
    \/ \E key \in DOMAIN cache : Expire(key)

Spec == Init /\ [][Next]_vars

\* Queries for the cache keys: two that end like a units or maxchars argument
KeyQueries == {"LA", "LAmetric", "LA1000", "distance from LA to NY"}

\* The handlers up to the cache key (Step 2), in both slots, over KeyQueries.
NextKeys ==
    \/ \E i \in Slots, query \in KeyQueries, units \in UnitsArgs :
          Start(i, QUICK, query, units, 0, "u1")
    \/ \E i \in Slots, query \in KeyQueries, maxchars \in MaxcharsArgs :
          Start(i, DETAILED, query, "", maxchars, "u1")

\* the max lengths the handlers pass to sanitizeOutput
MaxLengths ==
    {QUICK_MAX_LENGTH, DETAILED_DEFAULT_MAX_LENGTH} \cup (MaxcharsArgs \ {0})

\* Answers about as long as a max length: one that fits exactly and ends in
\* an identity card number (9 characters), one that is longer by a word.
LongBodies ==
    { <<Rep("x", n - 9), "ABA300000">> : n \in MaxLengths }
    \cup { <<Rep("x", n), "tail">> : n \in MaxLengths }

LongFetches == { [rejects |-> FALSE, status |-> 200, body |-> b] : b \in LongBodies }

\* The handlers on long answers, every call succeeding.
NextLength ==
    \/ \E units \in UnitsArgs : Start(1, QUICK, "LA to NY", units, 0, "u1")
    \/ \E maxchars \in MaxcharsArgs : Start(1, DETAILED, "LA to NY", "", maxchars, "u1")
    \/ CacheChecked(1, FALSE)
    \/ BalanceChecked(1, FALSE)
    \/ \E f \in LongFetches : Executed(1, f, "none")
    \/ ConsumeAttempt(1, "ok")
    \/ CacheStored(1, FALSE)

SpecLength == Init /\ [][NextLength]_vars

\* a step of the handler in slot i: a call it awaits settles
HandlerStep(i) ==
    \/ \E readFails \in BOOLEAN : CacheChecked(i, readFails)
    \/ \E dbFails \in BOOLEAN : BalanceChecked(i, dbFails)
    \/ \E f \in FetchOutcomes, securityFails \in {"none", "sanitize", "redact"} :
          Executed(i, f, securityFails)
    \/ \E outcome \in {"ok", "lostAck", "fail"} : ConsumeAttempt(i, outcome)
    \/ \E writeFails \in BOOLEAN : CacheStored(i, writeFails)

\* Every call a handler awaits eventually returns or fails.
SpecFair == Spec /\ \A i \in Slots : WF_vars(HandlerStep(i))

SpecKeys == Init /\ [][NextKeys]_vars

\* what the fetches of concurrent invocations settle with: an answer, or a 500
ConcurrentFetches ==
    { f \in FetchOutcomes : ~f.rejects /\ f.status \in {200, 500} /\ f.body # <<" ">> }

\* Two invocations of one user for the same query run concurrently: each
\* handler is suspended at its awaits, and the steps of the two interleave.
NextConcurrent ==
    \/ \E i \in Slots, tool \in Tools :
          inv[i].pc = "idle" /\ Start(i, tool, "LA to NY", "", 0, "u1")
    \/ \E i \in Slots, readFails \in BOOLEAN : CacheChecked(i, readFails)
    \/ \E i \in Slots : BalanceChecked(i, FALSE)
    \/ \E i \in Slots, f \in ConcurrentFetches : Executed(i, f, "none")
    \/ \E i \in Slots, outcome \in {"ok", "lostAck", "fail"} : ConsumeAttempt(i, outcome)
    \/ \E i \in Slots, writeFails \in BOOLEAN : CacheStored(i, writeFails)

SpecConcurrent == Init /\ [][NextConcurrent]_vars

\* The handlers when the ledger may report the account deleted.
NextDeleted ==
    \/ \E tool \in Tools, userId \in Users : Start(1, tool, "LA to NY", "", 0, userId)
    \/ \E readFails \in BOOLEAN : CacheChecked(1, readFails)
    \/ BalanceChecked(1, FALSE)
    \/ BalanceCheckedDeleted(1)
    \/ \E f \in ConcurrentFetches : Executed(1, f, "none")
    \/ \E outcome \in {"ok", "fail"} : ConsumeAttempt(1, outcome)
    \/ \E writeFails \in BOOLEAN : CacheStored(1, writeFails)

SpecDeleted == Init /\ [][NextDeleted]_vars

(***************************************************************************)
(* Properties.                                                             *)
(***************************************************************************)
\* how often a step occurs in a log, and where it occurs first (0: nowhere)
Count(log, step) == Cardinality({n \in 1..Len(log) : log[n] = step})
Has(log, step) == Count(log, step) > 0
First(log, step) ==
    IF Has(log, step) THEN CHOOSE n \in 1..Len(log) :
                              log[n] = step /\ \A m \in 1..(n - 1) : log[m] # step
    ELSE 0
\* step a occurs in the log, and before the first b
Before(log, a, b) == Has(log, a) /\ First(log, a) < First(log, b)

\* the invocation called none of: balance check, client, consume, cache write
NoPaidWork(r) ==
    /\ ~Has(r.log, "checkBalance") /\ ~Has(r.log, "fetch")
    /\ ~Has(r.log, "consume") /\ ~Has(r.log, "storeCache")
    /\ r.consumeCalls = <<>> /\ r.attemptIds = <<>> /\ r.puts = <<>>
    /\ r.charged = 0

\* the invocation made neither the consume call nor a cache write
NoChargeNoStore(r) ==
    /\ ~Has(r.log, "consume") /\ ~Has(r.log, "storeCache")
    /\ r.consumeCalls = <<>> /\ r.attemptIds = <<>> /\ r.puts = <<>>
    /\ r.charged = 0

\* C1: in one invocation the handler calls the ledger's consume operation at
\* most once, and the ledger deducts at most the tool's fixed cost for it,
\* whatever the cache, the ledger and the external service answer.
C1_AtMostOneCharge ==
    \A i \in Slots :
        /\ Count(inv[i].log, "consume") <= 1
        /\ Len(inv[i].consumeCalls) <= 1
        /\ inv[i].charged >= 0
        /\ inv[i].charged <= TOOL_COST(inv[i].tool)

\* an invocation was charged its full cost although the ledger retried
C1_Witness ==
    \E i \in Slots :
        /\ inv[i].pc = "done" /\ inv[i].applied >= 2
        /\ inv[i].charged = TOOL_COST(inv[i].tool)

\* C2: when checkBalance reports sufficient = FALSE, the invocation issues no
\* fetch, no consume call and no cache write, throws nothing, and returns a
\* result flagged isError whose text carries the reported balance and the cost.
C2_BalanceGatePrecedence ==
    \A i \in Slots :
        (Has(inv[i].log, "balanceChecked") /\ ~inv[i].balanceCheck.sufficient) =>
            /\ ~Has(inv[i].log, "fetch") /\ ~Has(inv[i].log, "fetched")
            /\ NoChargeNoStore(inv[i])
            /\ inv[i].pc = "done"
            /\ inv[i].thrown = <<>>
            /\ inv[i].response.isError
            /\ inv[i].response.text =
                   formatInsufficientTokensError(inv[i].tool,
                       inv[i].balanceCheck.currentBalance, TOOL_COST(inv[i].tool))
            /\ \E m, n \in 1..Len(inv[i].response.text) :
                   /\ m < n
                   /\ inv[i].response.text[m] = ToString(inv[i].balanceCheck.currentBalance)
                   /\ inv[i].response.text[n] =
                          ToString(IF inv[i].tool = QUICK THEN QUICK_COST ELSE DETAILED_COST)

\* a user with 2 tokens left was refused the 4-token tool
C2_Witness ==
    \E i \in Slots :
        /\ inv[i].pc = "done" /\ inv[i].tool = DETAILED
        /\ Has(inv[i].log, "insufficient")
        /\ inv[i].balanceCheck.currentBalance = MaxBalance - QUICK_COST

\* the cache read of the invocation has settled
CacheRead(r) == Has(r.log, "cacheHit") \/ Has(r.log, "cacheMiss")

HasPII(text) == \E n \in 1..Len(text) : text[n] \in PIITokens

\* C4: in an invocation that reaches the charge step, the output passed to the
\* ledger, the text written to the cache and the text returned are one string,
\* the redacted form of the sanitized upstream text; no unredacted text
\* reaches the ledger, the cache or the caller.
C4_NoRawLeakage ==
    /\ \A i \in Slots :
          LET r == inv[i]
              out == redactPII(sanitizeOutput(r.result,
                                              MaxLengthOf(r.tool, r.maxchars))).redacted
          IN Has(r.log, "consume") =>
                /\ Len(r.consumeCalls) = 1
                /\ r.consumeCalls[1].output = out
                /\ \A a \in actions : a.actionId = r.actionId => a.output = out
                /\ \A n \in 1..Len(r.puts) : r.puts[n] = <<r.cacheKey, out>>
                /\ (r.pc = "done" /\ ~r.response.isError) => r.response.text = out
                /\ ~HasPII(r.response.text)
    /\ \A a \in actions : ~HasPII(a.output)
    /\ \A k \in DOMAIN cache : ~HasPII(cache[k])

\* an upstream text with markup and a card number was charged, cached and returned
C4_Witness ==
    \E i \in Slots :
        /\ inv[i].pc = "done" /\ ~inv[i].response.isError
        /\ HasPII(inv[i].result)
        /\ inv[i].puts # <<>> /\ inv[i].cacheKey \in DOMAIN cache
        /\ PLACEHOLDER \in {inv[i].response.text[n] : n \in 1..Len(inv[i].response.text)}

\* the fetch did not produce a 2xx response
ClientFails(f) == f.rejects \/ ~Ok(f.status)

\* the 501 message: asks to rephrase, or (getDetailedAnalysis, non-empty
\* body) passes on the service's suggestions for another query
AsksToRephrase(text) ==
    \E n \in 1..Len(text) :
        text[n] \in {"WolframAlpha could not interpret the query. Please rephrase or check spelling.",
                     "Please rephrase.", "Suggestions: "}

C6_StepOrdering ==
    \A i \in Slots :
        LET r == inv[i]
        IN /\ Has(r.log, "fetch") => Before(r.log, "balanceChecked", "fetch")
           /\ Has(r.log, "consume") =>
                 /\ Before(r.log, "sanitized", "redacted")
                 /\ Before(r.log, "redacted", "consume")
                 /\ r.consumeCalls[1].output = r.finalResult
           /\ Has(r.log, "storeCache") =>
                 /\ Before(r.log, "consumed", "storeCache")
                 /\ Recorded(actions, r.actionId)
           /\ r.puts # <<>> => Has(r.log, "consumed")

\* an invocation went through every step and wrote the cache
C6_Witness ==
    \E i \in Slots :
        /\ inv[i].pc = "done" /\ inv[i].puts # <<>>
        /\ Has(inv[i].log, "balanceChecked") /\ Has(inv[i].log, "consumed")

\* C7: one action id is generated per invocation, before the balance check,
\* and the consume call and every attempt of the ledger made for the
\* invocation carry that id.
C7_StableActionId ==
    /\ nextId = started
    /\ \A i \in Slots :
          LET r == inv[i]
          IN r.pc # "idle" =>
                /\ Count(r.log, "actionId") = 1
                /\ r.log[1] = "actionId"
                /\ r.actionId \in 1..nextId
                /\ Has(r.log, "checkBalance") => Before(r.log, "actionId", "checkBalance")
                /\ \A n \in 1..Len(r.consumeCalls) : r.consumeCalls[n].actionId = r.actionId
                /\ \A n \in 1..Len(r.attemptIds) : r.attemptIds[n] = r.actionId

\* the ledger retried the charge of an invocation
C7_Witness ==
    \E i \in Slots : Len(inv[i].attemptIds) >= 2 /\ inv[i].pc = "done"

\* C8: when the consume operation is applied two or more times with the same
\* action id, user and cost, the balance stays what it was after the first
\* application: one deduction, one action record.
C8_IdempotentCharge ==
    \A i \in Slots :
        inv[i].applied >= 1 =>
            /\ balance[inv[i].userId] = inv[i].balanceAfterFirst
            /\ inv[i].charged = TOOL_COST(inv[i].tool)
            /\ Cardinality({a \in actions : a.actionId = inv[i].actionId}) = 1

\* the consume operation was applied twice for one invocation
C8_Witness ==
    \E i \in Slots : inv[i].applied >= 2

\* C9: whichever step throws (missing user id, balance check, external call,
\* sanitize, redact, consume), the invocation returns a result flagged isError
\* whose text carries the exception's message; nothing escapes the handler.
C9_NoEscapingException ==
    \A i \in Slots :
        LET r == inv[i]
        IN /\ r.pc \in {"idle", "checkCache", "checkBalance", "execute", "consume",
                        "storeCache", "done"}
           /\ (r.pc # "idle" /\ (r.userId = "" \/ r.failure # "")) =>
                 /\ r.pc = "done"
                 /\ r.thrown # <<>>
                 /\ r.response = [isError |-> TRUE, text |-> <<"Error: ">> \o r.thrown]
                 /\ r.log[Len(r.log)] = "respond" /\ Count(r.log, "respond") = 1

\* the consume call threw and the invocation returned an error result
C9_Witness ==
    \E i \in Slots : inv[i].failure = "consume" /\ inv[i].pc = "done"

\* C10: an invocation whose request context carries no user id returns an
\* isError result and performs no cache read, balance check, external call,
\* consume call or cache write, even when the cache holds an unexpired entry
\* for its arguments.
C10_AuthenticationFirst ==
    \A i \in Slots :
        LET r == inv[i]
        IN (r.pc # "idle" /\ r.userId = "") =>
              /\ r.pc = "done"
              /\ r.response.isError
              /\ r.log = <<"actionId", "userId", "throw:userId", "respond">>
              /\ ~Has(r.log, "checkCache") /\ ~CacheRead(r)
              /\ NoPaidWork(r)

\* an unauthenticated invocation whose arguments have an unexpired cache entry
C10_Witness ==
    \E i \in Slots :
        /\ inv[i].pc = "done" /\ inv[i].userId = ""
        /\ CacheKeyOf(inv[i].tool, inv[i].query, inv[i].units, inv[i].maxchars)
               \in DOMAIN cache

\* C11: when the consume call throws, after the ledger's own retries, the
\* invocation ends with an isError result carrying the exception's message and
\* not the sanitized text as a success, writes nothing to the cache, and has
\* called the external client once and consumeTokensWithRetry once.
C11_ChargeFailure ==
    \A i \in Slots :
        LET r == inv[i]
        IN r.failure = "consume" =>
              /\ r.pc = "done"
              /\ r.response.isError
              /\ r.response # SuccessResponse(r.finalResult)
              /\ r.response.text = <<"Error: ">> \o r.thrown
              /\ r.response.text # r.finalResult
              /\ r.puts = <<>> /\ ~Has(r.log, "storeCache")
              /\ ~Has(r.log, "put") /\ ~Has(r.log, "putFailed")
              /\ Count(r.log, "fetch") = 1 /\ Count(r.log, "fetched") = 1
              /\ Count(r.log, "consume") = 1 /\ Len(r.consumeCalls) = 1
              /\ r.attempts = MaxAttempts

\* the consume call threw for a sanitized answer, and the cache has no entry for it
C11_Witness ==
    \E i \in Slots :
        /\ inv[i].failure = "consume" /\ inv[i].response.isError
        /\ inv[i].finalResult # <<>>
        /\ inv[i].cacheKey \notin DOMAIN cache

\* C12: on the step where the cache write of a charged invocation settles
\* with a rejected put, storeCache does not raise: the invocation ends with
\* the sanitized text as a non-error result, the charge stands (balance and
\* ledger log are as they were, with the invocation's action recorded), and
\* the cache is what it was: no new entry for the key.
C12_FailedWriteTolerated ==
    [][\A i \in Slots :
          (inv[i].pc = "storeCache" /\ Has(inv'[i].log, "putFailed")) =>
              /\ inv'[i].pc = "done"
              /\ inv'[i].thrown = <<>>
              /\ inv'[i].response = [isError |-> FALSE, text |-> inv[i].finalResult]
              /\ inv'[i].puts = <<>>
              /\ cache' = cache
              /\ balance' = balance /\ actions' = actions
              /\ inv'[i].charged = TOOL_COST(inv[i].tool)
              /\ Recorded(actions', inv[i].actionId)]_vars

\* a charged invocation returned its text although the put failed; no entry
C12_Witness ==
    \E i \in Slots :
        /\ inv[i].pc = "done" /\ Has(inv[i].log, "putFailed")
        /\ ~inv[i].response.isError /\ inv[i].response.text = inv[i].finalResult
        /\ inv[i].charged = TOOL_COST(inv[i].tool)
        /\ inv[i].cacheKey \notin DOMAIN cache

\* the steps of an invocation, the ledger's attempts left out
Steps(log) == Filter(log, {"attempt"})

\* the steps of an invocation that misses the cache and completes
MissPath(put) ==
    <<"actionId", "userId", "checkCache", "cacheMiss", "checkBalance",
      "balanceChecked", "fetch", "fetched", "sanitized", "redacted", "consume",
      "consumed", "storeCache", put, "respond">>

\* C13: when the cache read fails, checkCache returns null and raises
\* nothing, the invocation takes the miss branch and goes on to the balance
\* check; if no later step fails and the balance suffices it runs the whole
\* miss path (external call, sanitize, redact, charge, cache store) and
\* returns the sanitized text; any error it returns comes from a later step,
\* never from the read.
C13_FailedReadIsMiss ==
    \A i \in Slots :
        LET r == inv[i]
        IN r.readFailed =>
              /\ checkCache(r.cacheKey, TRUE) = Null
              /\ Len(r.log) >= 5
              /\ SubSeq(r.log, 1, 5) =
                     <<"actionId", "userId", "checkCache", "cacheMiss", "checkBalance">>
              /\ ~Has(r.log, "cacheHit") /\ ~Has(r.log, "throw:checkCache")
              /\ r.thrown # <<"KV_ERROR">>
              /\ (r.pc = "done" /\ r.response.isError) =>
                    \/ /\ r.failure \in {"checkBalance", "client", "sanitize",
                                         "redact", "consume"}
                       /\ r.response = Caught(r.thrown)
                    \/ /\ r.failure = "" /\ ~r.balanceCheck.sufficient
                       /\ r.response = InsufficientResponse(r.tool, r.balanceCheck)
              /\ (r.pc = "done" /\ r.failure = "" /\ r.balanceCheck.sufficient) =>
                    /\ Steps(r.log) \in {MissPath("put"), MissPath("putFailed")}
                    /\ r.response = SuccessResponse(r.finalResult)
                    /\ r.charged = TOOL_COST(r.tool)

\* the read of an entry the store holds failed; the invocation fetched, was
\* charged and wrote the cache
C13_Witness ==
    \E i \in Slots :
        /\ inv[i].readFailed /\ Truthy(inv[i].kvEntry)
        /\ inv[i].pc = "done" /\ ~inv[i].response.isError
        /\ inv[i].puts # <<>> /\ inv[i].charged = TOOL_COST(inv[i].tool)

\* the key under which the handler caches the logged arguments of an action
KeyOfAction(a) ==
    CacheKeyOf(a.toolName, a.input.query, a.input.units, a.input.maxchars)

\* C14: in every reachable state, every entry of the cache has a recorded
\* consume action with success = TRUE whose output is the cached text and
\* whose tool and arguments give the entry's key; and an invocation has
\* written the cache only after its fetch, sanitization, redaction and charge
\* succeeded.
C14_CachedContentWasPaidFor ==
    /\ \A k \in DOMAIN cache :
          \E a \in actions :
              a.success /\ a.output = cache[k] /\ KeyOfAction(a) = k
    /\ \A i \in Slots :
          LET r == inv[i]
          IN r.puts # <<>> =>
                /\ r.failure = "" /\ r.thrown = <<>>
                /\ Ok(r.fetched.status) /\ ~r.fetched.rejects
                /\ Has(r.log, "sanitized") /\ Has(r.log, "redacted")
                /\ Has(r.log, "consumed")
                /\ \E a \in actions :
                      /\ a.actionId = r.actionId /\ a.success
                      /\ a.userId = r.userId /\ a.cost = TOOL_COST(r.tool)
                      /\ <<KeyOfAction(a), a.output>> = r.puts[1]

\* the cache holds two entries, each paid for by an action of its own
C14_Witness ==
    \E k1, k2 \in DOMAIN cache :
        /\ k1 # k2
        /\ \E a1, a2 \in actions :
              /\ a1.actionId # a2.actionId
              /\ KeyOfAction(a1) = k1 /\ KeyOfAction(a2) = k2

\* the content of a response: its text without the cached-result marker
Content(text) ==
    IF text # <<>> /\ Head(text) = CACHED_MARKER THEN Tail(text) ELSE text

MissCompleted(r, bal, acts) ==
    /\ Has(r.log, "cacheMiss")
    /\ r.balanceCheck.sufficient
    /\ r.balanceCheck.currentBalance >= TOOL_COST(r.tool)
    /\ Count(r.log, "consume") = 1 /\ Len(r.consumeCalls) = 1
    /\ r.charged = TOOL_COST(r.tool)
    /\ Cardinality({a \in acts : a.actionId = r.actionId}) = 1
    /\ bal[r.userId] = r.balanceCheck.currentBalance - TOOL_COST(r.tool)
    /\ r.finalResult =
           redactPII(sanitizeOutput(r.result, MaxLengthOf(r.tool, r.maxchars))).redacted
    /\ r.response = [isError |-> FALSE, text |-> r.finalResult]

\* the key of r holds r's sanitized text in cache c
Holds(c, r) ==
    /\ r.cacheKey = CacheKeyOf(r.tool, r.query, r.units, r.maxchars)
    /\ r.cacheKey \in DOMAIN c
    /\ c[r.cacheKey] = r.finalResult

\* C16, as claimed: on the step where an invocation that missed the cache,
\* passed the balance check with balance b, fetched, sanitized and was
\* charged, completes, the balance is b - cost after one charge, the response
\* is the sanitized text as a non-error result, and the cache holds that text
\* under the key of the lookup.
C16_AsClaimed ==
    [][\A i \in Slots :
          (inv[i].pc = "storeCache" /\ inv'[i].pc = "done") =>
              /\ MissCompleted(inv'[i], balance', actions')
              /\ Holds(cache', inv'[i])]_vars

\* C16, amended: as claimed, except that the cache holds the sanitized text
\* under the key of the lookup when the cache write succeeded; when the put
\* failed the cache is what it was before the write.
C16_SuccessfulMissPath ==
    [][\A i \in Slots :
          (inv[i].pc = "storeCache" /\ inv'[i].pc = "done") =>
              /\ MissCompleted(inv'[i], balance', actions')
              /\ Has(inv'[i].log, "put") => Holds(cache', inv'[i])
              /\ ~Has(inv'[i].log, "put") => cache' = cache]_vars

\* the 4-token tool was charged to a user holding 4 tokens, and the text cached
C16_Witness ==
    \E i \in Slots :
        /\ inv[i].pc = "done" /\ Has(inv[i].log, "put")
        /\ inv[i].tool = DETAILED
        /\ MissCompleted(inv[i], balance, actions)
        /\ Holds(cache, inv[i])
        /\ balance[inv[i].userId] = MaxBalance - DETAILED_COST

\* the tool and arguments of an invocation
ArgsOf(r) == <<r.tool, r.query, r.units, r.maxchars>>

\* C17, as claimed: the cache key is a function of the tool name and the
\* arguments, and two invocations that differ in tool name or arguments
\* (query and units, query and maxchars) have different cache keys.
C17_AsClaimed ==
    \A i, j \in Slots :
        (inv[i].pc # "idle" /\ inv[j].pc # "idle") =>
            /\ inv[i].cacheKey = CacheKeyOf(inv[i].tool, inv[i].query,
                                            inv[i].units, inv[i].maxchars)
            /\ ArgsOf(inv[i]) = ArgsOf(inv[j]) => inv[i].cacheKey = inv[j].cacheKey
            /\ ArgsOf(inv[i]) # ArgsOf(inv[j]) => inv[i].cacheKey # inv[j].cacheKey

\* C18, as claimed: getQuickAnswer with query q and units u uses the key
\* 'wolfram:getQuickAnswer:' followed by q, one space and u; for
\* 'distance from LA to NY' and 'metric' that is
\* 'wolfram:getQuickAnswer:distance from LA to NY metric'.
C18_AsClaimed ==
    \A i \in Slots :
        LET r == inv[i]
        IN (r.pc # "idle" /\ r.tool = QUICK /\ r.units # "") =>
              /\ r.cacheKey = "wolfram:getQuickAnswer:" \o r.query \o " " \o r.units
              /\ (r.query = "distance from LA to NY" /\ r.units = "metric") =>
                    r.cacheKey = "wolfram:getQuickAnswer:distance from LA to NY metric"

\* invocations i and j ran for the same cache key, both missed, and both
\* completed with a result that is no error
BothMissed(i, j) ==
    /\ i # j
    /\ inv[i].cacheKey = inv[j].cacheKey
    /\ Has(inv[i].log, "cacheMiss") /\ Has(inv[j].log, "cacheMiss")
    /\ inv[i].pc = "done" /\ inv[j].pc = "done"
    /\ ~inv[i].response.isError /\ ~inv[j].response.isError

\* invocation r made its own external call, was charged once under its own
\* action id, and issued a cache write of its sanitized text
PaidItsOwnWay(r, acts) ==
    /\ Count(r.log, "fetch") = 1 /\ Count(r.log, "fetched") = 1
    /\ Ok(r.fetched.status)
    /\ Len(r.consumeCalls) = 1 /\ r.consumeCalls[1].actionId = r.actionId
    /\ r.charged = TOOL_COST(r.tool)
    /\ Cardinality({a \in acts : a.actionId = r.actionId}) = 1
    /\ Count(r.log, "storeCache") = 1
    /\ Has(r.log, "put") \/ Has(r.log, "putFailed")
    /\ Has(r.log, "put") => r.puts = <<<<r.cacheKey, r.finalResult>>>>
    /\ r.finalResult =
           redactPII(sanitizeOutput(r.result, MaxLengthOf(r.tool, r.maxchars))).redacted
    /\ ~HasPII(r.finalResult)

Raced(i, j) ==
    /\ i # j
    /\ inv[i].userId = inv[j].userId
    /\ Has(inv[i].log, "balanceChecked") /\ Has(inv[j].log, "balanceChecked")
    /\ inv[i].balanceCheck.sufficient /\ inv[j].balanceCheck.sufficient
    /\ inv[i].balanceCheck.currentBalance = inv[j].balanceCheck.currentBalance
    /\ inv[i].balanceCheck.currentBalance <
           TOOL_COST(inv[i].tool) + TOOL_COST(inv[j].tool)

\* C20: nothing but the balance the ledger reports decides whether an
\* invocation goes on: two concurrent invocations of one user that both
\* passed the balance check on a balance covering only one of them have both
\* issued the external call, and each issues the consume call once its answer
\* is fetched and sanitized; the state in which both have done so is
\* reachable.
C20_BalanceCheckChargeRace ==
    \A i, j \in Slots :
        Raced(i, j) =>
            /\ Has(inv[i].log, "fetch") /\ Has(inv[j].log, "fetch")
            /\ \A k \in {i, j} :
                  (Has(inv[k].log, "fetched") /\ ~ClientFails(inv[k].fetched)) =>
                      /\ Has(inv[k].log, "consume")
                      /\ Len(inv[k].consumeCalls) = 1
                      /\ inv[k].consumeCalls[1].cost = TOOL_COST(inv[k].tool)

\* two invocations of the 4-token tool by a user holding 4 tokens both passed
\* checkBalance before either attempt at the charge, and both issued the
\* fetch and the consume call
C20_Witness ==
    /\ Raced(1, 2)
    /\ inv[1].tool = DETAILED /\ inv[2].tool = DETAILED
    /\ inv[1].balanceCheck.currentBalance = MaxBalance
    /\ \A k \in Slots :
          /\ Has(inv[k].log, "fetched")
          /\ inv[k].pc = "consume" /\ Len(inv[k].consumeCalls) = 1
          /\ inv[k].attempts = 0

\* C21: once the ledger has applied the charge of an invocation, no later
\* step of that invocation (a further attempt, the consume call throwing, the
\* cache write succeeding or failing, the response) changes the balance or
\* the ledger's log again, and an entry expiring does not either.
C21_NoRollback ==
    [][\A i \in Slots :
          (inv[i].applied >= 1 /\ inv'[i].actionId = inv[i].actionId) =>
              /\ balance' = balance
              /\ actions' = actions
              /\ inv'[i].charged = inv[i].charged
              /\ inv'[i].charged = TOOL_COST(inv[i].tool)]_vars

\* a charged invocation whose cache write failed has ended; the tokens are gone
C21_Witness ==
    \E i \in Slots :
        /\ inv[i].pc = "done" /\ Has(inv[i].log, "putFailed")
        /\ Has(inv[i].log, "respond")
        /\ balance[inv[i].userId] =
               inv[i].balanceCheck.currentBalance - TOOL_COST(inv[i].tool)
        /\ Recorded(actions, inv[i].actionId)

\* C22: every cacheKV.put the pipeline issues asks for an expiration of 900
\* seconds; no step of a handler removes an entry (entries go only by
\* expiring) and a handler changes no entry but that of its own key, by a
\* put; and an invocation whose key has no entry at its cache read (none was
\* written, or it expired) misses, goes on to the balance check and, when the
\* balance suffices and no step fails, runs the whole miss path and is
\* charged the tool's cost.
C22_EntryLifetime ==
    [][/\ \A i \in Slots :
             LET r == inv'[i]
             IN /\ \A n \in 1..Len(r.ttls) : r.ttls[n] = 900
                /\ Len(r.ttls) = Count(r.log, "put") + Count(r.log, "putFailed")
                /\ (CacheRead(r) /\ ~Truthy(r.kvEntry)) =>
                      /\ Has(r.log, "cacheMiss") /\ Has(r.log, "checkBalance")
                      /\ (r.pc = "done" /\ r.failure = "" /\ r.balanceCheck.sufficient) =>
                            /\ Steps(r.log) \in {MissPath("put"), MissPath("putFailed")}
                            /\ r.charged = TOOL_COST(r.tool)
                            /\ Recorded(actions', r.actionId)
       /\ inv' # inv => DOMAIN cache \subseteq DOMAIN cache'
       /\ \A k \in DOMAIN cache' :
             (k \notin DOMAIN cache \/ cache'[k] # cache[k]) =>
                 \E i \in Slots : /\ inv[i].pc = "storeCache" /\ inv[i].cacheKey = k
                                  /\ Has(inv'[i].log, "put")]_vars

\* the entry of a charged call expired, and the next call for the key was
\* charged again and wrote the entry anew
C22_Witness ==
    \E i \in Slots :
        /\ inv[i].pc = "done" /\ ~Truthy(inv[i].kvEntry) /\ ~inv[i].readFailed
        /\ inv[i].charged = TOOL_COST(inv[i].tool)
        /\ inv[i].ttls = <<CACHE_TTL_SECONDS>>
        /\ inv[i].cacheKey \in DOMAIN cache
        /\ \E a \in actions :
              a.actionId < inv[i].actionId /\ KeyOfAction(a) = inv[i].cacheKey

\* the steps from the cache miss to the fetch
ToFetch ==
    <<"actionId", "userId", "checkCache", "cacheMiss", "checkBalance",
      "balanceChecked", "fetch", "fetched">>

\* the paths of the handlers' state machine, from Start to the one response
Paths ==
    { <<"actionId", "userId", "throw:userId", "respond">>,
      <<"actionId", "userId", "checkCache", "cacheHit", "respond">>,
      <<"actionId", "userId", "checkCache", "cacheMiss", "checkBalance",
        "throw:checkBalance", "respond">>,
      <<"actionId", "userId", "checkCache", "cacheMiss", "checkBalance",
        "balanceChecked", "insufficient", "respond">>,
      ToFetch \o <<"throw:client", "respond">>,
      ToFetch \o <<"throw:sanitize", "respond">>,
      ToFetch \o <<"sanitized", "throw:redact", "respond">>,
      ToFetch \o <<"sanitized", "redacted", "consume", "throw:consume", "respond">>,
      MissPath("put"), MissPath("putFailed") }

IsPrefix(s, t) == Len(s) <= Len(t) /\ s = SubSeq(t, 1, Len(s))

\* C23: when every awaited call returns or fails, an invocation in flight
\* reaches its end; all along its steps are the beginning of one path of the
\* state machine, and at its end they are a whole path, closed by the one
\* response it produced.
C23_TerminatesWithOneResponse ==
    /\ [](\A i \in Slots :
             LET r == inv[i]
             IN r.pc # "idle" =>
                   /\ \E p \in Paths : IsPrefix(Steps(r.log), p)
                   /\ r.pc = "done" <=> Steps(r.log) \in Paths
                   /\ Count(r.log, "respond") = (IF r.pc = "done" THEN 1 ELSE 0)
                   /\ r.pc = "done" => r.log[Len(r.log)] = "respond")
    /\ \A i \in Slots : (inv[i].pc \notin {"idle", "done"}) ~> (inv[i].pc = "done")

\* an invocation that was retried at the ledger ended on the full path
C23_Witness ==
    \E i \in Slots :
        /\ inv[i].pc = "done" /\ inv[i].attempts = MaxAttempts
        /\ Steps(inv[i].log) = MissPath("put")
        /\ Count(inv[i].log, "respond") = 1

\* the failure a response status stands for
StatusClass(status) ==
    CASE status = 501 -> "UninterpretableQuery"
      [] status = 400 -> "InvalidQueryFormat"
      [] status = 403 -> "InvalidCredentials"
      [] OTHER -> "UpstreamError"

IsWhitespace(token) == token \in WhitespaceTokens \cup ControlTokens

\* t is body without the whitespace at its two ends
IsTrimOf(t, body) ==
    /\ t # <<>> => ~IsWhitespace(t[1]) /\ ~IsWhitespace(t[Len(t)])
    /\ \E a \in 1..(Len(body) + 1) :
          /\ a + Len(t) - 1 <= Len(body)
          /\ t = SubSeq(body, a, a + Len(t) - 1)
          /\ \A n \in 1..Len(body) :
                (n < a \/ n > a + Len(t) - 1) => IsWhitespace(body[n])

\* C24: for a response that is not 2xx both client methods throw: for 501,
\* 400 and 403 a message of their own, for any other status a message
\* carrying the status code; the messages of two kinds of failure differ;
\* getDetailedAnalysis puts a non-empty 501 body into its message as
\* suggestions; for a 2xx response both return the body without the
\* whitespace at its ends.
C24_UpstreamStatusMapping ==
    /\ \A i \in Slots :
          LET r == inv[i]
              f == r.fetched
              message == Tail(r.thrown)
          IN (Has(r.log, "fetched") /\ ~f.rejects) =>
                /\ ~Ok(f.status) =>
                      /\ r.thrown # <<>> /\ r.response.isError
                      /\ f.status = 400 =>
                            message = <<"Invalid query format. Please check your input.">>
                      /\ f.status = 403 =>
                            message = <<"Invalid WolframAlpha AppID. Please check configuration.">>
                      /\ f.status = 501 => AsksToRephrase(message)
                      /\ (f.status = 501 /\ r.tool = DETAILED /\ f.body # <<>>) =>
                            /\ Len(message) = 2 + Len(f.body)
                            /\ message[2] = "Suggestions: "
                            /\ SubSeq(message, 3, Len(message)) = f.body
                      /\ (f.status = 501 /\ r.tool = QUICK) =>
                            \A n \in 1..Len(message) :
                                \A m \in 1..Len(f.body) : message[n] # f.body[m]
                      /\ StatusClass(f.status) = "UpstreamError" =>
                            message = <<"WolframAlpha API error: " \o ToString(f.status)
                                        \o " " \o StatusText(f.status)>>
                /\ Ok(f.status) =>
                      /\ r.failure \notin {"client"}
                      /\ IsTrimOf(r.result, f.body)
    /\ \A tool \in Tools : \A f, g \in FetchOutcomes :
          (/\ ~f.rejects /\ ~g.rejects /\ ~Ok(f.status) /\ ~Ok(g.status)
           /\ StatusClass(f.status) # StatusClass(g.status)) =>
              /\ CallClient(tool, f).threw /\ CallClient(tool, g).threw
              /\ CallClient(tool, f).value # CallClient(tool, g).value

\* getDetailedAnalysis got a 501 with suggestions; the error result carries them
C24_Witness ==
    \E i \in Slots :
        /\ inv[i].pc = "done" /\ inv[i].tool = DETAILED
        /\ inv[i].fetched.status = 501 /\ inv[i].fetched.body # <<>>
        /\ inv[i].response.text =
               <<"Error: ", "Failed to get detailed analysis: ",
                 "WolframAlpha could not interpret the query. ", "Suggestions: ">>
               \o inv[i].fetched.body

\* C25: an invocation issues at most one request to the external service:
\* the client is called at most once and its one fetch settles at most once;
\* when the request fails the invocation ends with the client's error and no
\* further request, and no later failure (sanitize, redact, consume) leads to
\* another request.
C25_NoInternalRetry ==
    \A i \in Slots :
        LET r == inv[i]
        IN /\ Count(r.log, "fetch") <= 1
           /\ Count(r.log, "fetched") <= Count(r.log, "fetch")
           /\ \A p \in Paths : Count(p, "fetch") <= 1 /\ Count(p, "fetched") <= 1
           /\ (Has(r.log, "fetched") /\ ClientFails(r.fetched)) =>
                 /\ r.pc = "done" /\ r.failure = "client"
                 /\ Count(r.log, "fetch") = 1 /\ Count(r.log, "fetched") = 1
                 /\ r.log[Len(r.log) - 1] = "throw:client"
           /\ r.failure \in {"sanitize", "redact", "consume"} =>
                 /\ r.pc = "done"
                 /\ Count(r.log, "fetch") = 1 /\ Count(r.log, "fetched") = 1

\* the one request of an invocation failed at the network; it was not repeated
C25_Witness ==
    \E i \in Slots :
        /\ inv[i].pc = "done" /\ inv[i].fetched.rejects
        /\ Count(inv[i].log, "fetched") = 1
        /\ inv[i].response.isError

\* the action ids in use: of the invocations in the slots and of the ledger's log
UsedIds == {inv[i].actionId : i \in Slots} \cup {a.actionId : a \in actions}

\* C26: the action id an invocation starts with is one no earlier invocation
\* had and the ledger has not recorded; so the charge of a later invocation,
\* with the same arguments or not, is applied by the ledger as a new action:
\* the cost is deducted and one action is recorded for it under its own id.
C26_FreshActionId ==
    [][\A i \in Slots :
          /\ inv'[i].actionId # inv[i].actionId =>
                /\ inv'[i].actionId \notin UsedIds
                /\ inv'[i].actionId > nextId
                /\ \A j \in Slots \ {i} : inv'[j].actionId # inv'[i].actionId
          /\ Has(inv'[i].log, "consumed") =>
                /\ inv'[i].charged = TOOL_COST(inv'[i].tool)
                /\ \E a \in actions' :
                      /\ a.actionId = inv'[i].actionId
                      /\ a.userId = inv'[i].userId
                      /\ a.input = [query |-> inv'[i].query, units |-> inv'[i].units,
                                    maxchars |-> inv'[i].maxchars]
                /\ Cardinality({a \in actions' : a.actionId = inv'[i].actionId}) = 1]_vars

\* a user invoked a tool again with the same arguments and was charged again,
\* under a new action id
C26_Witness ==
    \E i \in Slots :
        /\ Has(inv[i].log, "consumed") /\ inv[i].charged = TOOL_COST(inv[i].tool)
        /\ \E a, b \in actions :
              /\ a.actionId < b.actionId /\ b.actionId = inv[i].actionId
              /\ a.userId = b.userId /\ a.toolName = b.toolName /\ a.input = b.input
        /\ balance[inv[i].userId] = MaxBalance - 2 * TOOL_COST(inv[i].tool)

\* C27, as claimed: the text an invocation passes to the ledger, caches and
\* returns, which is the sanitized text after redaction, is no longer than
\* the max length of its tool: 5000 for getQuickAnswer, maxchars or else 6800
\* for getDetailedAnalysis.
C27_AsClaimed ==
    \A i \in Slots :
        LET r == inv[i]
            maxLength == IF r.tool = QUICK THEN 5000
                         ELSE IF r.maxchars # 0 THEN r.maxchars ELSE 6800
        IN /\ \A n \in 1..Len(r.consumeCalls) :
                 TextLen(r.consumeCalls[n].output) <= maxLength
           /\ \A n \in 1..Len(r.puts) : TextLen(r.puts[n][2]) <= maxLength
           /\ (r.pc = "done" /\ ~r.response.isError /\ ~Has(r.log, "cacheHit")) =>
                 TextLen(r.response.text) <= maxLength

\* C28, as claimed: at a cache read, checkCache returns the stored text and
\* the invocation takes the hit path whenever the store holds an entry for
\* the key and the read does not fail, whatever string is stored; the
\* invocation takes the miss path only when there is no entry or the read
\* fails.
C28_AsClaimed ==
    \A i \in Slots :
        LET r == inv[i]
        IN CacheRead(r) =>
              /\ (~r.kvEntry.isNull /\ ~r.readFailed) =>
                    /\ Has(r.log, "cacheHit")
                    /\ Content(r.response.text) = r.kvEntry.value
              /\ Has(r.log, "cacheMiss") => (r.kvEntry.isNull \/ r.readFailed)

\* C29: on the step where a cache read ends in a hit, the handler returns a
\* non-error result whose text is '[Cached Result]', a blank line, and then
\* the entry's text as it is stored, and the cache is left as it was.
C29_CacheHitShape ==
    [][\A i \in Slots :
          (inv[i].pc = "checkCache" /\ Has(inv'[i].log, "cacheHit")) =>
              /\ inv[i].cacheKey \in DOMAIN cache
              /\ inv'[i].pc = "done"
              /\ ~inv'[i].response.isError
              /\ inv'[i].response.text = <<"[Cached Result]\n\n">> \o cache[inv[i].cacheKey]
              /\ cache' = cache]_vars

\* a hit returned the marker and, unchanged, a text of several tokens
C29_Witness ==
    \E i \in Slots :
        /\ Has(inv[i].log, "cacheHit") /\ inv[i].cacheKey \in DOMAIN cache
        /\ Len(cache[inv[i].cacheKey]) >= 2
        /\ Head(inv[i].response.text) = CACHED_MARKER
        /\ Tail(inv[i].response.text) = cache[inv[i].cacheKey]

\* C30, as claimed: an invocation that missed the cache and whose balance
\* check reported userDeleted = TRUE ends with a result flagged isError and
\* issues neither the external call nor the consume call, whatever the check
\* reported as sufficient.
C30_AsClaimed ==
    \A i \in Slots :
        LET r == inv[i]
        IN (Has(r.log, "balanceChecked") /\ r.balanceCheck.userDeleted) =>
              /\ r.pc = "done"
              /\ r.response.isError
              /\ ~Has(r.log, "fetch") /\ ~Has(r.log, "fetched")
              /\ ~Has(r.log, "consume") /\ r.consumeCalls = <<>>

\* the invocation returned a result that is neither an error nor a cache hit
FreshResult(r) ==
    /\ r.pc = "done" /\ r.log[Len(r.log)] = "respond"
    /\ ~r.response.isError
    /\ ~Has(r.log, "cacheHit")

\* C31: an invocation returns a non-error result that is not a cache hit only
\* if, within that invocation, the consume call returned successfully, made
\* for the invocation's user, the tool's cost and the invocation's action id,
\* and the ledger holds the action and deducted the cost.
C31_NoFreeFreshResult ==
    \A i \in Slots :
        LET r == inv[i]
        IN FreshResult(r) =>
              /\ Has(r.log, "consumed")
              /\ Before(r.log, "consumed", "respond")
              /\ Len(r.consumeCalls) = 1
              /\ r.consumeCalls[1].userId = r.userId
              /\ r.consumeCalls[1].cost = TOOL_COST(r.tool)
              /\ r.consumeCalls[1].actionId = r.actionId
              /\ r.consumeCalls[1].success
              /\ r.applied >= 1
              /\ r.charged = TOOL_COST(r.tool)
              /\ \E a \in actions :
                    /\ a.actionId = r.actionId /\ a.userId = r.userId
                    /\ a.cost = TOOL_COST(r.tool)

\* a fresh answer was returned after the ledger's first attempt lost its
\* acknowledgement and the second returned; the cache write had failed
C31_Witness ==
    \E i \in Slots :
        /\ FreshResult(inv[i]) /\ inv[i].response.text # <<>>
        /\ inv[i].attempts = 2 /\ inv[i].applied = 2
        /\ Has(inv[i].log, "putFailed")
        /\ balance[inv[i].userId] = MaxBalance - TOOL_COST(inv[i].tool)

\* the store held, at the cache read of invocation r, an entry for r's key
\* that a charged invocation of another user with r's tool and arguments wrote
WrittenByAnother(r) ==
    /\ CacheRead(r) /\ ~r.kvEntry.isNull
    /\ \E a \in actions :
          /\ a.userId # r.userId /\ a.success
          /\ a.toolName = r.tool
          /\ a.input = [query |-> r.query, units |-> r.units, maxchars |-> r.maxchars]
          /\ KeyOfAction(a) = r.cacheKey
          /\ a.output = r.kvEntry.value

\* C32, as claimed: the cache key does not depend on the caller's user id, and
\* an invocation of an authenticated user whose cache read succeeds while the
\* store holds an entry that another user's successful invocation with the
\* same tool and arguments wrote, is a cache hit returning that entry, and the
\* caller is charged nothing.
C32_AsClaimed ==
    \A i \in Slots :
        LET r == inv[i]
        IN /\ r.pc # "idle" /\ r.userId # "" =>
                 r.cacheKey = CacheKeyOf(r.tool, r.query, r.units, r.maxchars)
           /\ (WrittenByAnother(r) /\ ~r.readFailed) =>
                 /\ Has(r.log, "cacheHit")
                 /\ r.response = HitResponse(r.kvEntry.value)
                 /\ NoPaidWork(r)

\* the invocation ended on the cache-hit, unauthenticated, insufficient-balance
\* or upstream-failure path
EndedWithoutEffect(r) ==
    /\ r.pc = "done"
    /\ \/ Has(r.log, "cacheHit")
       \/ Has(r.log, "throw:userId")
       \/ Has(r.log, "insufficient")
       \/ Has(r.log, "throw:client")

\* C33: a step of an invocation by user u with cache key k leaves the balance
\* of every other user, the recorded actions of every other user and every
\* cache entry but the one for k as they were; it removes no recorded action;
\* and an invocation that ends on the cache-hit, unauthenticated,
\* insufficient-balance or upstream-failure path has changed neither the
\* cache nor the ledger in any of its steps.
C33_Frame ==
    [][\A i \in Slots :
          inv'[i] # inv[i] =>
              LET r == inv'[i]
              IN /\ \A u \in Users \ {r.userId} : balance'[u] = balance[u]
                 /\ actions \subseteq actions'
                 /\ \A a \in actions' \ actions : a.userId = r.userId
                 /\ \A k \in (DOMAIN cache \cup DOMAIN cache') \ {r.cacheKey} :
                       /\ k \in DOMAIN cache /\ k \in DOMAIN cache'
                       /\ cache'[k] = cache[k]
                 /\ (r.pc = "idle" \/ Len(r.log) <= 3) =>
                       /\ cache' = cache /\ balance' = balance /\ actions' = actions
                 /\ EndedWithoutEffect(r) =>
                       /\ cache' = cache /\ balance' = balance /\ actions' = actions
                       /\ r.charged = 0 /\ r.applied = 0 /\ r.attemptIds = <<>>
                       /\ r.puts = <<>> /\ r.ttls = <<>>
                       /\ r.consumeCalls = <<>>]_vars

\* an invocation was charged and wrote its entry while the cache held an
\* entry under another key and the ledger an action of an earlier invocation
C33_Witness ==
    \E i \in Slots :
        /\ inv[i].pc = "done" /\ inv[i].puts # <<>>
        /\ inv[i].charged = TOOL_COST(inv[i].tool)
        /\ \E k \in DOMAIN cache : k # inv[i].cacheKey
        /\ inv[i].cacheKey \in DOMAIN cache
        /\ Cardinality(actions) >= 2

\* the cost the code fixes for a tool: 2 for getQuickAnswer, 4 for
\* getDetailedAnalysis
FixedCost(tool) == IF tool = "getQuickAnswer" THEN 2 ELSE 4

\* C34: within one invocation the cost passed to the consume call equals the
\* cost passed to the balance check; that cost is 2 for getQuickAnswer and 4
\* for getDetailedAnalysis; the user id passed to both calls is the one of
\* the authentication context; and every consume call, and so every recorded
\* action, has success = TRUE.
C34_CostConsistency ==
    /\ \A i \in Slots :
          LET r == inv[i]
          IN /\ \A n \in 1..Len(r.balanceCalls) :
                   /\ r.balanceCalls[n].cost = FixedCost(r.tool)
                   /\ r.balanceCalls[n].userId = r.userId
                   /\ r.userId \in Users
             /\ \A n \in 1..Len(r.consumeCalls) :
                   /\ Len(r.balanceCalls) = 1
                   /\ r.consumeCalls[n].cost = r.balanceCalls[1].cost
                   /\ r.consumeCalls[n].cost = FixedCost(r.tool)
                   /\ r.consumeCalls[n].userId = r.balanceCalls[1].userId
                   /\ r.consumeCalls[n].userId = r.userId
                   /\ r.consumeCalls[n].toolName = r.tool
                   /\ r.consumeCalls[n].success
    /\ \A a \in actions :
          a.success /\ a.cost = FixedCost(a.toolName) /\ a.userId \in Users

\* the 4-token tool made its consume call after a balance check for 4 tokens
\* by the same user
C34_Witness ==
    \E i \in Slots :
        /\ inv[i].tool = DETAILED /\ inv[i].pc = "done"
        /\ inv[i].balanceCalls = <<[userId |-> "u1", cost |-> 4]>>
        /\ Len(inv[i].consumeCalls) = 1 /\ inv[i].consumeCalls[1].cost = 4
        /\ \E a \in actions : a.actionId = inv[i].actionId /\ a.cost = 4

\* the steps that record a throw caught by the catch block of a handler
CatchSteps ==
    {"throw:" \o step : step \in {"userId", "checkCache", "checkBalance", "client",
                                  "sanitize", "redact", "consume", "storeCache"}}

\* the invocation went through the catch block
EndedInCatch(r) == \E n \in 1..Len(r.log) : r.log[n] \in CatchSteps

\* the invocation returned from Step 7
EndedInSuccess(r) ==
    /\ Len(r.log) >= 2 /\ r.log[Len(r.log)] = "respond"
    /\ r.log[Len(r.log) - 1] \in {"put", "putFailed"}

\* C35: the response of a completed invocation carries isError = TRUE if and
\* only if the invocation ended on the insufficient-balance path or in the
\* catch block; it ended on exactly one of the four paths, and the responses
\* of the cache-hit path and of the successful path carry no isError.
C35_IsErrorMarksFailures ==
    \A i \in Slots :
        LET r == inv[i]
        IN r.pc = "done" =>
              /\ r.response.isError <=> (Has(r.log, "insufficient") \/ EndedInCatch(r))
              /\ Cardinality({p \in {"hit", "insufficient", "catch", "success"} :
                     \/ p = "hit" /\ Has(r.log, "cacheHit")
                     \/ p = "insufficient" /\ Has(r.log, "insufficient")
                     \/ p = "catch" /\ EndedInCatch(r)
                     \/ p = "success" /\ EndedInSuccess(r)}) = 1
              /\ Has(r.log, "cacheHit") =>
                    r.response = HitResponse(r.kvEntry.value) /\ ~r.response.isError
              /\ EndedInSuccess(r) =>
                    r.response = SuccessResponse(r.finalResult) /\ ~r.response.isError
              /\ Has(r.log, "insufficient") =>
                    r.response = InsufficientResponse(r.tool, r.balanceCheck)
              /\ EndedInCatch(r) => r.response = Caught(r.thrown)

\* an invocation whose charge failed after a successful fetch ended in the
\* catch block with an error-flagged response
C35_Witness ==
    \E i \in Slots :
        /\ inv[i].pc = "done" /\ Has(inv[i].log, "throw:consume")
        /\ Ok(inv[i].fetched.status) /\ inv[i].finalResult # <<>>
        /\ inv[i].response.isError

\* queries for the keys of the two tools, among them two that name a tool
ToolQueries ==
    Queries \cup KeyQueries \cup {"getDetailedAnalysis:LA", "getQuickAnswer:LA"}

\* C36: a key produced for getQuickAnswer is never equal to a key produced
\* for getDetailedAnalysis, whatever the arguments; no recorded action of one
\* tool has the key of an invocation of the other tool; and an invocation
\* that got a cache hit got the text an action of its own tool logged.
C36_ToolsNeverShareKeys ==
    /\ \A q1, q2 \in ToolQueries, units \in UnitsArgs, maxchars \in MaxcharsArgs :
          CacheKeyOf(QUICK, q1, units, 0) # CacheKeyOf(DETAILED, q2, "", maxchars)
    /\ \A i \in Slots :
          LET r == inv[i]
          IN (r.pc # "idle" /\ r.userId # "") =>
                /\ \A a \in actions : a.toolName # r.tool => KeyOfAction(a) # r.cacheKey
                /\ Has(r.log, "cacheHit") =>
                      \E a \in actions :
                          /\ a.toolName = r.tool /\ KeyOfAction(a) = r.cacheKey
                          /\ a.output = r.kvEntry.value

\* getDetailedAnalysis found no entry for a query whose getQuickAnswer answer
\* the cache holds
C36_Witness ==
    \E i \in Slots :
        /\ inv[i].tool = DETAILED /\ inv[i].maxchars = 0
        /\ Has(inv[i].log, "cacheMiss") /\ ~inv[i].readFailed /\ inv[i].kvEntry.isNull
        /\ CacheKeyOf(QUICK, inv[i].query, "", 0) \in DOMAIN cache
        /\ \E a \in actions : a.toolName = QUICK /\ a.input.query = inv[i].query

====
